---- MODULE Spec2Model ----
(***************************************************************************)
(* Model of the dual-handle AudioStreamer (src/src/lib/audio-streamer.ts), *)
(* its VirtualTimelineManager (src/unnamed/part_009) and the useAudio      *)
(* facade that drives it (src/unnamed/part_004, lines 1497-2054).          *)
(*                                                                         *)
(* Time is counted in whole units: every chunk lasts ChunkDur units, the   *)
(* transition threshold is one unit, a playing handle advances one unit    *)
(* per 'timeupdate'.                                                       *)
(***************************************************************************)
EXTENDS Integers, FiniteSets, Sequences, TLC

\* ---- bounds of the model ------------------------------------------------
NumChunks == 3
ChunkDur == 2
MaxOps == 3
MaxBook == 12
MaxNow == 8
MaxCalls == 2
MaxChunks == 3
MaxDur == 2
MaxSeq == 3

\* ---- program constants --------------------------------------------------
transitionThreshold == 1
prefetchSize == 5
initialPrefetch == 3
gaplessPrefetchSize == 5
initialBatchSize == 20
maxBatchSize == 10

\* times are counted in units of 60 s: the safety margin taken off the
\* lifetime of a signed URL, and the buffer within which a URL of an upcoming
\* chunk counts as near its expiry
SafetyMargin == 1
NearExpiry == 5

\* volumes and playback rates are counted in hundredths: the ranges the
\* setters clamp to, and the values of a new element
MinVolume == 0
MaxVolume == 100
MinRate == 25
MaxRate == 400
DefaultVolume == 100
DefaultRate == 100

\* the Gapless5 player counts positions in milliseconds
MsPerSecond == 1000

None == -1
NoHandle == "none"
NoError == [type |-> "none", chunk |-> None]
Chunks == 0 .. (NumChunks - 1)
Handles == {"primary", "secondary"}

\* ======================= VirtualTimelineManager ==========================

\* the duration table of the loaded book (chunk.duration_s, sorted by seq)
chunkDurations == [i \in Chunks |-> ChunkDur]

RECURSIVE calculateCumulativeOffsets(_, _)
\* offsets[0] = 0, offsets[i+1] = offsets[i] + durs[i]; the entry of chunk i
calculateCumulativeOffsets(durs, i) ==
    IF i = 0 THEN 0
    ELSE calculateCumulativeOffsets(durs, i - 1) + durs[i - 1]

chunkOffsets == [i \in Chunks |-> calculateCumulativeOffsets(chunkDurations, i)]

getTotalDuration == chunkOffsets[NumChunks - 1] + chunkDurations[NumChunks - 1]

Max(a, b) == IF a >= b THEN a ELSE b
Min(a, b) == IF a <= b THEN a ELSE b

\* getChunkPosition: clamp, then the first chunk whose half-open interval
\* holds the time; the very end resolves to the last chunk at full duration
getChunkPosition(virtualTime) ==
    LET clampedTime == Max(0, Min(virtualTime, getTotalDuration))
        hits == {i \in Chunks : /\ clampedTime >= chunkOffsets[i]
                                /\ clampedTime < chunkOffsets[i] + chunkDurations[i]}
    IN  IF hits # {}
        THEN LET i == CHOOSE j \in hits : \A k \in hits : j <= k
             IN  [chunkIndex |-> i, localTime |-> clampedTime - chunkOffsets[i]]
        ELSE [chunkIndex |-> NumChunks - 1,
              localTime |-> chunkDurations[NumChunks - 1]]

getVirtualTime(chunkIndex, localTime) ==
    IF chunkIndex < 0 \/ chunkIndex >= NumChunks THEN 0
    ELSE chunkOffsets[chunkIndex]
         + Max(0, Min(localTime, chunkDurations[chunkIndex]))

\* ---- the manager for any chunk list ------------------------------------
\* arrays are sequences: the entry of index i is the element i + 1

\* the sum 0 + undefined of initialize() on an empty chunk list
NaN == -1

RECURSIVE sortBySeq(_)
\* [...chunks].sort((a, b) => a.seq - b.seq): ascending by seq, chunks of
\* equal seq in the order they came
sortBySeq(chunks) ==
    IF chunks = <<>> THEN <<>>
    ELSE LET n == Len(chunks)
             c == chunks[n]
             front == sortBySeq(SubSeq(chunks, 1, n - 1))
             before(x) == x.seq <= c.seq
             after(x) == x.seq > c.seq
         IN  SelectSeq(front, before) \o <<c>> \o SelectSeq(front, after)

RECURSIVE offsetsNoCarry(_, _)
\* offsets that restart at every chunk
offsetsNoCarry(durs, n) ==
    IF n <= 1 THEN <<0>>
    ELSE Append(offsetsNoCarry(durs, n - 1), durs[n - 1])

RECURSIVE offsetsUpTo(_, _)
\* the offsets array of calculateCumulativeOffsets once it has n entries
offsetsUpTo(durs, n) ==
    IF n <= 1 THEN <<0>>
    ELSE LET offsets == offsetsUpTo(durs, n - 1)
         IN  Append(offsets, offsets[n - 1] + durs[n - 1])

\* VirtualTimelineManager.initialize(chunks)
timelineInitialize(chunks) ==
    LET sortedChunks == sortBySeq(chunks)
        n == Len(sortedChunks)
        durs == [k \in 1 .. n |-> sortedChunks[k].duration_s]
        offsets == offsetsUpTo(durs, n)
    IN  [chunkDurations |-> durs,
         chunkOffsets |-> offsets,
         totalDuration |-> IF n = 0 THEN NaN ELSE offsets[Len(offsets)] + durs[n],
         chunks |-> [k \in 1 .. n |->
                        [index |-> k - 1, duration |-> sortedChunks[k].duration_s,
                         startTime |-> offsets[k],
                         endTime |-> offsets[k] + sortedChunks[k].duration_s]]]

\* VirtualTimelineManager.getChunkPosition(virtualTime) on the tables tl
timelineGetChunkPosition(tl, virtualTime) ==
    LET clampedTime == Max(0, Min(virtualTime, tl.totalDuration))
        hits == {i \in 1 .. Len(tl.chunkOffsets) :
                    /\ clampedTime >= tl.chunkOffsets[i]
                    /\ clampedTime < tl.chunkOffsets[i] + tl.chunkDurations[i]}
        lastChunkIndex == Len(tl.chunkDurations) - 1
    IN  IF hits # {}
        THEN LET i == CHOOSE j \in hits : \A k \in hits : j <= k
             IN  [chunkIndex |-> i - 1,
                  localTime |-> clampedTime - tl.chunkOffsets[i]]
        ELSE [chunkIndex |-> lastChunkIndex,
              localTime |-> tl.chunkDurations[lastChunkIndex + 1]]

\* VirtualTimelineManager.getVirtualTime(chunkIndex, localTime) on the tables tl
timelineGetVirtualTime(tl, chunkIndex, localTime) ==
    IF chunkIndex < 0 \/ chunkIndex >= Len(tl.chunkOffsets) THEN 0
    ELSE tl.chunkOffsets[chunkIndex + 1]
         + Max(0, Min(localTime, tl.chunkDurations[chunkIndex + 1]))

\* VirtualTimelineManager.isNearChunkEnd(virtualTime, thresholdSeconds)
timelineIsNearChunkEnd(tl, virtualTime, thresholdSeconds) ==
    LET pos == timelineGetChunkPosition(tl, virtualTime)
        chunkDuration == tl.chunkDurations[pos.chunkIndex + 1]
        timeToEnd == chunkDuration - pos.localTime
    IN  timeToEnd <= thresholdSeconds

\* no call of getVirtualTime, isNearChunkEnd or test was the last call
NoCall ==
    [method |-> "none", chunkIndex |-> 0, localTime |-> 0, threshold |-> 0,
     value |-> 0, near |-> FALSE]

\* a manager after its constructor
NoTimeline ==
    [initialized |-> FALSE, input |-> <<>>, chunkDurations |-> <<>>,
     chunkOffsets |-> <<>>, totalDuration |-> 0, chunks |-> <<>>,
     asked |-> FALSE, query |-> 0,
     result |-> [chunkIndex |-> 0, localTime |-> 0], call |-> NoCall]

\* ============================== state ====================================

VARIABLES
    isInitialized,    \* AudioStreamer.isInitialized
    currentChunk,     \* AudioStreamer.currentChunk
    activePrimary,    \* AudioStreamer.activePrimary
    isTransitioning,  \* AudioStreamer.isTransitioning
    audio,            \* the two HTMLAudioElements: src, load state, playing, time
    chunkCache,       \* chunks with a blob URL in chunkCache
    preloadQueue,     \* chunks with a performPreload in flight
    prefetchQueue,    \* chunks with a prefetchChunks download in flight
    preps,            \* suspended prepareSeamlessTransition calls
    loads,            \* suspended loadChunk calls (download in flight)
    microtask,        \* the continuation of seekToVirtualTime after loadChunk
    audioRef,         \* useAudio audioRef.current (NoHandle or a handle)
    currentChunkRef,  \* useAudio currentChunkRef.current
    pubIsPlaying,     \* useAudio audioState.isPlaying
    currentError,     \* useAudio currentError (NoError or [type, chunk])
    firstLoad,        \* the facade's "load first chunk" effect has run
    seekTo,           \* chunk of the last seek made during a transition
                      \* (observation only; None when there is none)
    ops,              \* number of facade controls called and of downloads
                      \* and media loads that failed, so far
    elements,         \* AudioStreamer.primaryAudio/secondaryAudio are set
    signedUrls,       \* chunks with an entry in signedUrls/urlExpirationTime
    timelineTotal,    \* VirtualTimelineManager.totalDuration
    orphanSounding,   \* an element of an earlier initialize() is playing
    initTrigger,      \* the facade's initialization effect is due to run
    resolver,         \* the signed-URL tables of a streamer and its clock
    timeline,         \* a VirtualTimelineManager on its own: the chunk list
                      \* it was given, its tables, and the last
                      \* getChunkPosition call with its result
    gapless,          \* the fields of a GaplessAudioStreamer, its player, and
                      \* the outcome of the last call of its public methods
    settings,         \* volume and playbackRate of the two elements, and
                      \* the volume and playbackRate of the published state
    urlRequests,      \* batched signed-URL requests of the engine in flight,
                      \* each with the call that waits for it
    facade,           \* the useAudio hook on its own: bookId, whether the
                      \* book query has data, isInitialized, currentError,
                      \* the streamer in its ref, audioState, and the
                      \* initializeAudio calls that await initialize()
    blobUrls,         \* whether the run follows the blob URLs, and whether
                      \* one that was created is neither the cache entry of
                      \* its chunk nor revoked (observation only)
    observe,          \* whether the run records the publications
    published         \* the last virtual time passed to onVirtualTimeUpdate
                      \* since the last seek or restart of the active
                      \* element (observation only; None when there is none)

vars == <<isInitialized, currentChunk, activePrimary, isTransitioning, audio,
          chunkCache, preloadQueue, prefetchQueue, preps, loads, microtask,
          audioRef, currentChunkRef, pubIsPlaying, currentError, firstLoad,
          seekTo, ops, elements, signedUrls, timelineTotal, orphanSounding,
          initTrigger, resolver, urlRequests, settings, gapless, timeline,
          facade, blobUrls, observe, published>>

\* the state as one record, so that a handler is a function from state to state
State ==
    [isInitialized |-> isInitialized, currentChunk |-> currentChunk,
     activePrimary |-> activePrimary, isTransitioning |-> isTransitioning,
     audio |-> audio, chunkCache |-> chunkCache, preloadQueue |-> preloadQueue,
     prefetchQueue |-> prefetchQueue, preps |-> preps, loads |-> loads,
     microtask |-> microtask, audioRef |-> audioRef,
     currentChunkRef |-> currentChunkRef, pubIsPlaying |-> pubIsPlaying,
     currentError |-> currentError, firstLoad |-> firstLoad,
     seekTo |-> seekTo, ops |-> ops, elements |-> elements,
     signedUrls |-> signedUrls, timelineTotal |-> timelineTotal,
     orphanSounding |-> orphanSounding, initTrigger |-> initTrigger,
     resolver |-> resolver, urlRequests |-> urlRequests,
     settings |-> settings, gapless |-> gapless, timeline |-> timeline,
     facade |-> facade, blobUrls |-> blobUrls, observe |-> observe,
     published |-> published]

Commit(s) ==
    /\ isInitialized' = s.isInitialized
    /\ currentChunk' = s.currentChunk
    /\ activePrimary' = s.activePrimary
    /\ isTransitioning' = s.isTransitioning
    /\ audio' = s.audio
    /\ chunkCache' = s.chunkCache
    /\ preloadQueue' = s.preloadQueue
    /\ prefetchQueue' = s.prefetchQueue
    /\ preps' = s.preps
    /\ loads' = s.loads
    /\ microtask' = s.microtask
    /\ audioRef' = s.audioRef
    /\ currentChunkRef' = s.currentChunkRef
    /\ pubIsPlaying' = s.pubIsPlaying
    /\ currentError' = s.currentError
    /\ firstLoad' = s.firstLoad
    /\ seekTo' = s.seekTo
    /\ ops' = s.ops
    /\ elements' = s.elements
    /\ signedUrls' = s.signedUrls
    /\ timelineTotal' = s.timelineTotal
    /\ orphanSounding' = s.orphanSounding
    /\ initTrigger' = s.initTrigger
    /\ resolver' = s.resolver
    /\ urlRequests' = s.urlRequests
    /\ settings' = s.settings
    /\ gapless' = s.gapless
    /\ timeline' = s.timeline
    /\ facade' = s.facade
    /\ blobUrls' = s.blobUrls
    /\ observe' = s.observe
    /\ published' = s.published

\* ---- the useAudio hook on its own ---------------------------------------
\* a ref or a state that is null is the empty sequence, one that is set is
\* a sequence of one element. An initializeAudio call, the streamer it
\* creates and the audioState it publishes carry the book they are for and
\* whether initialize(newBookId) or cleanup() of the hook has run since the
\* call started (observation only)

\* the hook after its first render without a book
NoFacade ==
    [bookId |-> <<>>, book |-> FALSE, isInitialized |-> FALSE,
     currentError |-> FALSE, audioStreamerRef |-> <<>>, audioState |-> <<>>,
     pending |-> {}, effectDue |-> FALSE]

\* every initializeAudio call in flight is superseded from now on
supersede(pending) == {[p EXCEPT !.superseded = TRUE] : p \in pending}

\* useAudio.initialize(newBookId): the streamer in the ref is cleaned up and
\* dropped, the states are reset; the book query starts again for a new id
facadeInitialize(f, newBookId) ==
    [f EXCEPT !.audioStreamerRef = <<>>,
              !.bookId = <<newBookId>>,
              !.book = IF f.bookId = <<newBookId>> THEN @ ELSE FALSE,
              !.audioState = <<>>, !.currentError = FALSE,
              !.isInitialized = FALSE,
              !.pending = supersede(@),
              !.effectDue = TRUE]

\* useAudio.cleanup(): as initialize, but bookId stays
facadeCleanup(f) ==
    [f EXCEPT !.audioStreamerRef = <<>>,
              !.audioState = <<>>, !.currentError = FALSE,
              !.isInitialized = FALSE,
              !.pending = supersede(@),
              !.effectDue = @ \/ f.isInitialized \/ f.currentError]

\* the effect "initialize audio when book data and bookId are available":
\* the loading state is published and initializeAudio() is called, which
\* creates a streamer for bookId and awaits its initialize()
initializeEffect(f) ==
    IF f.bookId # <<>> /\ f.book /\ ~f.isInitialized
    THEN [f EXCEPT !.effectDue = FALSE,
                   !.audioState = <<[bookId |-> f.bookId[1], isLoading |-> TRUE,
                                     superseded |-> FALSE]>>,
                   !.pending = @ \cup {[book |-> f.bookId[1],
                                        superseded |-> FALSE]}]
    ELSE [f EXCEPT !.effectDue = FALSE]

\* initializeAudio after `await streamer.initialize()`: the streamer goes into
\* the ref, the state of its book is published, isInitialized is set
initializeAudioResume(f, p) ==
    [f EXCEPT !.pending = @ \ {p},
              !.audioStreamerRef = <<p>>,
              !.audioState = <<[bookId |-> p.book, isLoading |-> FALSE,
                                superseded |-> p.superseded]>>,
              !.isInitialized = TRUE,
              !.effectDue = @ \/ ~f.isInitialized]

\* the catch of initializeAudio: setCurrentError with a new error
initializeAudioCatch(f, p) ==
    [f EXCEPT !.pending = @ \ {p}, !.currentError = TRUE, !.effectDue = TRUE]

\* no blob URL has been created; the run does not follow them
NoBlobUrls == [observe |-> FALSE, orphaned |-> FALSE]

\* two new elements, and the state the facade publishes at initialization
DefaultSettings ==
    [volume |-> [h \in Handles |-> DefaultVolume],
     playbackRate |-> [h \in Handles |-> DefaultRate],
     pubVolume |-> DefaultVolume, pubPlaybackRate |-> DefaultRate]

\* a GaplessAudioStreamer after its constructor. position is the position of
\* the player in its current track, in ms; seek holds the chunk position of a
\* seekToVirtualTime that waits for ensureSignedUrl; signal is how the last
\* call of a public method completed ("none" while it is pending)
NoGapless ==
    [player |-> FALSE, isInitialized |-> FALSE, currentChunk |-> 0,
     position |-> 0, isPlaying |-> FALSE, seek |-> <<>>, signal |-> "none",
     error |-> NoError]

\* a media element without a resource
EmptyAudio == [src |-> None, load |-> "empty", playing |-> FALSE, time |-> 0]

\* ========================= signed-URL resolution =========================

BookChunks == 0 .. (MaxBook - 1)

\* the lifetime the server grants to the signed URLs of the engine, in units
\* of 60 s
Lifetime == 8

\* a streamer before initialize(): signedUrls (url, 0 = no entry; a positive
\* number names the response that brought the URL) and urlExpirationTime
\* (exp, 0 = no entry) are empty. pending is the batched request in flight,
\* request the last request issued, returned the URL the last call returned
NoResolver ==
    [engine |-> "none", bookLen |-> 0, now |-> 0, gen |-> 0, calls |-> 0,
     url |-> [i \in BookChunks |-> 0], exp |-> [i \in BookChunks |-> 0],
     pending |-> <<>>, request |-> <<>>, returned |-> 0]

\* a resolver that trusts every entry it holds, whatever the time
hasValidUrlIgnoringExpiry(r, i) == r.url[i] # 0

\* `signedUrl && expirationTime && Date.now() < expirationTime`
hasValidUrl(r, i) == r.url[i] # 0 /\ r.exp[i] # 0 /\ r.now < r.exp[i]

\* AudioStreamer.getChunkUrl: the chunk, then the upcoming chunks whose URL
\* is missing or within the buffer before its expiry
chunksToGenerate(r, chunkIndex) ==
    LET needed(nextChunk) ==
            /\ nextChunk < r.bookLen
            /\ \/ r.url[nextChunk] = 0 \/ r.exp[nextChunk] = 0
               \/ r.now >= r.exp[nextChunk] - NearExpiry
    IN  <<chunkIndex>> \o SelectSeq([i \in 1 .. prefetchSize |-> chunkIndex + i],
                                    needed)

\* GaplessAudioStreamer.ensureSignedUrl: the chunks of the window around the
\* chunk that have no valid URL
gaplessChunksToGenerate(r, chunkIndex) ==
    LET batchSize == Min(gaplessPrefetchSize, maxBatchSize)
        startChunk == Max(0, chunkIndex - (batchSize \div 2))
        endChunk == Min(r.bookLen, startChunk + batchSize)
        invalid(i) == ~hasValidUrl(r, i)
    IN  SelectSeq([k \in 1 .. Max(0, endChunk - startChunk) |-> startChunk + k - 1],
                  invalid)

\* the first batch of initialize(): AudioStreamer line 71,
\* GaplessAudioStreamer.generateInitialSignedUrls
initialBatch(engine, n) ==
    [k \in 1 .. Min(IF engine = "dual" THEN prefetchSize ELSE initialBatchSize, n)
        |-> k - 1]

\* generateSignedUrls / generateSignedUrlsForChunks on a response with the
\* lifetime expiresIn: every requested chunk gets the new URL and the expiry
\* Date.now() + expires_in - margin
storeSignedUrls(r, indices, expiresIn) ==
    LET got == {indices[k] : k \in 1 .. Len(indices)}
    IN  [r EXCEPT !.gen = @ + 1,
                  !.url = [i \in BookChunks |-> IF i \in got THEN r.gen + 1 ELSE @[i]],
                  !.exp = [i \in BookChunks |->
                              IF i \in got THEN r.now + expiresIn - SafetyMargin
                              ELSE @[i]]]

\* getChunkUrl / ensureSignedUrl up to its first suspension
getChunkUrl(r, chunkIndex) ==
    IF hasValidUrl(r, chunkIndex)
    THEN [r EXCEPT !.calls = @ + 1, !.returned = r.url[chunkIndex],
                   !.request = <<>>]
    ELSE LET indices == IF r.engine = "dual"
                        THEN chunksToGenerate(r, chunkIndex)
                        ELSE gaplessChunksToGenerate(r, chunkIndex)
         IN  [r EXCEPT !.calls = @ + 1, !.returned = 0, !.request = indices,
                       !.pending = <<[chunk |-> chunkIndex, indices |-> indices]>>]

\* ============================ AudioStreamer ==============================

\* isActiveAudio that takes every element of the engine for the active one
isActiveAudioAny(s, h) == s.elements

isActiveAudio(s, h) ==
    /\ s.elements
    /\ \/ s.activePrimary /\ h = "primary"
       \/ ~s.activePrimary /\ h = "secondary"

getActiveAudio(s) == IF s.activePrimary THEN "primary" ELSE "secondary"

getInactiveAudio(s) == IF s.activePrimary THEN "secondary" ELSE "primary"

getTotalChunks(s) == IF s.isInitialized THEN NumChunks ELSE 0

\* the facade's onError callback and error handlers: setCurrentError(error)
setCurrentError(s, type, chunk) ==
    [s EXCEPT !.currentError = [type |-> type, chunk |-> chunk]]

\* element.src = url: the resource is replaced, the element is reset and
\* paused (the media load algorithm fires no 'pause' event)
setSrc(s, h, c) ==
    [s EXCEPT !.audio[h] = [src |-> c, load |-> "loading",
                            playing |-> FALSE, time |-> 0]]

\* element.pause(), with the facade's 'pause' listener on the element it holds
pauseAudio(s, h) ==
    IF s.audio[h].playing
    THEN [s EXCEPT !.audio[h].playing = FALSE,
                   !.pubIsPlaying = IF h = s.audioRef THEN FALSE ELSE @]
    ELSE s

\* element.play() on an element with a resource: rejected when the resource
\* failed to load; an element that has ended restarts from 0
playAudio(s, h) ==
    IF s.audio[h].load = "error" \/ s.audio[h].playing THEN s
    ELSE LET restarts == s.audio[h].load = "ready"
                         /\ s.audio[h].time >= chunkDurations[s.audio[h].src]
         IN  [s EXCEPT !.audio[h].playing = TRUE,
                       !.audio[h].time = IF restarts THEN 0 ELSE @,
                       !.pubIsPlaying = IF h = s.audioRef THEN TRUE ELSE @,
                       !.published = IF restarts THEN None ELSE @]

\* URL.createObjectURL(audioBlob) and chunkCache.set(chunkIndex, blobUrl) at
\* the end of a download: the entry the chunk had, if any, is replaced and
\* its blob URL is not revoked
chunkCacheSet(s, c) ==
    [s EXCEPT !.chunkCache = @ \cup {c},
              !.blobUrls.orphaned = @ \/ (s.blobUrls.observe /\ c \in s.chunkCache)]

\* a batched request of signed URLs with the call that waits for it
UrlRequest(purpose, c, indices, kind, local, upcoming) ==
    [purpose |-> purpose, chunk |-> c, indices |-> indices, kind |-> kind,
     local |-> local, upcoming |-> upcoming]

\* prefetchChunks(chunkIndices): for every chunk that is not cached, a
\* download starts when getChunkUrl has a valid URL, a request of URLs otherwise
prefetchChunks(s, chunkIndices) ==
    LET todo == chunkIndices \ s.chunkCache
        ready == {c \in todo : hasValidUrl(s.resolver, c)}
    IN  [s EXCEPT
            !.prefetchQueue = @ \cup ready,
            !.urlRequests = @ \cup
                {UrlRequest("prefetch", c, chunksToGenerate(s.resolver, c),
                            "none", 0, {}) : c \in todo \ ready}]

\* prefetchUpcoming(c): the URLs of the upcoming chunks that are missing or
\* near their expiry are requested in one batch first; prefetchChunks follows
prefetchUpcoming(s, c) ==
    LET upcomingChunks == {c + i : i \in 1 .. prefetchSize} \cap Chunks
        r == s.resolver
        needed(nextChunk) ==
            /\ nextChunk < NumChunks
            /\ \/ r.url[nextChunk] = 0 \/ r.exp[nextChunk] = 0
               \/ r.now >= r.exp[nextChunk] - NearExpiry
        signedUrlsNeeded == SelectSeq([i \in 1 .. prefetchSize |-> c + i], needed)
    IN  IF ~s.isInitialized THEN s
        ELSE IF signedUrlsNeeded # <<>>
        THEN [s EXCEPT !.urlRequests = @ \cup
                {UrlRequest("upcoming", c, signedUrlsNeeded, "none", 0,
                            upcomingChunks)}]
        ELSE prefetchChunks(s, upcomingChunks)

\* the tail of loadChunk once the blob URL is at hand (lines 209-215)
loadChunkCommit(s, c) ==
    prefetchUpcoming([s EXCEPT !.currentChunk = c, !.currentChunkRef = c], c)

\* what the caller of loadChunk does with the URL it resolves with
loadChunkThen(s, c, kind, local) ==
    CASE kind \in {"seek", "skip"} -> [s EXCEPT !.microtask = <<local>>]
      [] kind = "facade" ->
            IF s.audioRef = NoHandle THEN setCurrentError(s, "network", c)
            ELSE setSrc(s, s.audioRef, c)
      [] OTHER -> s

\* what the caller of loadChunk does when it rejects
loadChunkCatch(s, c, kind) ==
    CASE kind = "seek" ->
            [setCurrentError(s, "playback", None) EXCEPT !.seekTo = None]
      [] kind = "facade" -> setCurrentError(s, "network", c)
      [] OTHER -> s

\* loadChunk(chunkIndex) up to its first suspension
loadChunk(s, c, kind, local) ==
    IF ~s.isInitialized \/ c < 0 \/ c >= NumChunks
    THEN loadChunkCatch(s, c, kind)
    ELSE IF c \in s.chunkCache
    THEN loadChunkThen(loadChunkCommit(s, c), c, kind, local)
    ELSE IF hasValidUrl(s.resolver, c)
    THEN [s EXCEPT !.loads = @ \cup {[chunk |-> c, kind |-> kind, local |-> local]}]
    ELSE [s EXCEPT !.urlRequests = @ \cup
            {UrlRequest("load", c, chunksToGenerate(s.resolver, c), kind, local, {})}]

\* lines 340-363 of prepareSeamlessTransition: the next chunk goes into the
\* handle that is inactive now; the call then waits for its 'canplay'
loadIntoInactive(s, next) ==
    LET inactiveAudio == getInactiveAudio(s)
    IN  IF s.elements /\ next \in s.chunkCache
        THEN [setSrc(s, inactiveAudio, next) EXCEPT
                !.preps = @ \cup {[phase |-> "canplay", chunk |-> next,
                                   handle |-> inactiveAudio]}]
        ELSE s

\* preloadChunk(next) as awaited by prepareSeamlessTransition
preloadChunk(s, next) ==
    IF next \in s.chunkCache THEN loadIntoInactive(s, next)
    ELSE IF \E p \in s.preps : p.phase = "resolve" /\ p.chunk = next
    THEN s
    ELSE IF next \in s.preloadQueue \/ hasValidUrl(s.resolver, next)
    THEN [s EXCEPT !.preloadQueue = @ \cup {next},
                   !.preps = @ \cup {[phase |-> "fetch", chunk |-> next,
                                      handle |-> NoHandle]}]
    ELSE [s EXCEPT !.preloadQueue = @ \cup {next},
                   !.preps = @ \cup {[phase |-> "resolve", chunk |-> next,
                                      handle |-> NoHandle]},
                   !.urlRequests = @ \cup
                        {UrlRequest("preload", next,
                                    chunksToGenerate(s.resolver, next),
                                    "none", 0, {})}]

\* prepareSeamlessTransition without its test for the last chunk
prepareSeamlessTransitionNoLastCheck(s) ==
    IF s.isTransitioning THEN s
    ELSE preloadChunk([s EXCEPT !.isTransitioning = TRUE], s.currentChunk + 1)

prepareSeamlessTransition(s) ==
    IF s.isTransitioning \/ s.currentChunk >= getTotalChunks(s) - 1 THEN s
    ELSE preloadChunk([s EXCEPT !.isTransitioning = TRUE], s.currentChunk + 1)

\* callbacks.onVirtualTimeUpdate(virtualTime, totalDuration)
onVirtualTimeUpdate(s, virtualTime) ==
    IF s.observe THEN [s EXCEPT !.published = virtualTime] ELSE s

\* handleTimeUpdate(audio) for the active element
handleTimeUpdate(s, h) ==
    IF ~s.isInitialized \/ s.isTransitioning THEN s
    ELSE LET virtualTime == getVirtualTime(s.currentChunk, s.audio[h].time)
             s1 == onVirtualTimeUpdate(s, virtualTime)
             timeUntilEnd == chunkDurations[s.currentChunk] - s.audio[h].time
         IN  IF timeUntilEnd <= transitionThreshold /\ ~s.isTransitioning
             THEN prepareSeamlessTransition(s1)
             ELSE s1

performSeamlessTransition(s, nextChunkIndex) ==
    LET s1 == pauseAudio(s, getActiveAudio(s))
        s2 == [s1 EXCEPT !.activePrimary = ~s.activePrimary,
                         !.currentChunk = nextChunkIndex]
        newActiveAudio == getActiveAudio(s2)
        s3 == IF s2.audio[newActiveAudio].src # None
              THEN playAudio(s2, newActiveAudio) ELSE s2
        s4 == [s3 EXCEPT !.currentChunkRef = s3.currentChunk,
                         !.isTransitioning = FALSE]
    IN  prefetchUpcoming(s4, s4.currentChunk)

\* handleChunkEnd without its test for the last chunk
handleChunkEndNoLastCheck(s) ==
    IF s.isTransitioning
    THEN performSeamlessTransition(s, s.currentChunk + 1)
    ELSE loadChunk(s, s.currentChunk + 1, "fallback", 0)

handleChunkEnd(s) ==
    IF s.currentChunk >= getTotalChunks(s) - 1
    THEN [s EXCEPT !.isTransitioning = FALSE]
    ELSE IF s.isTransitioning
    THEN performSeamlessTransition(s, s.currentChunk + 1)
    ELSE loadChunk(s, s.currentChunk + 1, "fallback", 0)

\* seekToVirtualTime(virtualTime) up to its first suspension, called by the
\* facade's seekToVirtualTime (kind "seek") or by a skip (kind "skip")
seekToVirtualTimeAs(s, virtualTime, kind) ==
    IF ~s.isInitialized THEN loadChunkCatch(s, None, kind)
    ELSE LET pos == getChunkPosition(virtualTime)
             activeAudio == getActiveAudio(s)
         IN  IF pos.chunkIndex # s.currentChunk
             THEN loadChunk(s, pos.chunkIndex, kind, pos.localTime)
             ELSE [s EXCEPT !.audio[activeAudio].time = pos.localTime]

seekToVirtualTime(s, virtualTime) == seekToVirtualTimeAs(s, virtualTime, "seek")

getCurrentVirtualTime(s) ==
    IF ~s.isInitialized THEN 0
    ELSE getVirtualTime(s.currentChunk, s.audio[getActiveAudio(s)].time)

\* AudioStreamer.initialize() succeeding: the timeline is filled, two new
\* elements replace the ones the engine held, the first signed URLs are
\* stored and the first chunks are being prefetched
initialize(s) ==
    LET initialChunks == {i \in Chunks : i < Min(prefetchSize, NumChunks)}
        firstChunks == {i \in initialChunks : i < Min(initialPrefetch, NumChunks)}
    IN  [s EXCEPT
            !.timelineTotal = getTotalDuration,
            !.orphanSounding = @ \/ \E h \in Handles : s.audio[h].playing,
            !.audio = [h \in Handles |-> EmptyAudio],
            !.elements = TRUE,
            !.settings = [@ EXCEPT !.volume = DefaultSettings.volume,
                                   !.playbackRate = DefaultSettings.playbackRate],
            !.signedUrls = @ \cup initialChunks,
            !.resolver = storeSignedUrls(
                            [@ EXCEPT !.engine = "dual", !.bookLen = NumChunks],
                            initialBatch("dual", NumChunks), Lifetime),
            !.prefetchQueue = @ \cup (firstChunks \ s.chunkCache),
            !.isInitialized = TRUE]

\* cleanup without the clearing of chunkCache
cleanupKeepCache(s) ==
    LET s1 == IF s.elements
              THEN [pauseAudio(pauseAudio(s, "primary"), "secondary") EXCEPT
                       !.audio = [h \in Handles |-> EmptyAudio]]
              ELSE s
    IN  [s1 EXCEPT !.elements = FALSE, !.signedUrls = {}, !.preloadQueue = {},
                   !.resolver = [@ EXCEPT !.url = NoResolver.url,
                                          !.exp = NoResolver.exp],
                   !.isInitialized = FALSE, !.isTransitioning = FALSE,
                   !.currentChunk = 0, !.activePrimary = TRUE]

\* AudioStreamer.cleanup(): both elements are paused, emptied and dropped,
\* the caches are cleared and the fields reset; the timeline is left alone,
\* and downloads in flight are not cancelled
cleanup(s) ==
    LET s1 == IF s.elements
              THEN [pauseAudio(pauseAudio(s, "primary"), "secondary") EXCEPT
                       !.audio = [h \in Handles |-> EmptyAudio]]
              ELSE s
    IN  [s1 EXCEPT !.elements = FALSE, !.chunkCache = {}, !.signedUrls = {},
                   !.preloadQueue = {},
                   !.resolver = [@ EXCEPT !.url = NoResolver.url,
                                          !.exp = NoResolver.exp],
                   !.isInitialized = FALSE, !.isTransitioning = FALSE,
                   !.currentChunk = 0, !.activePrimary = TRUE]

getTotalVirtualDuration(s) == s.timelineTotal

\* Math.max(0, Math.min(1, volume)) and Math.max(0.25, Math.min(4, rate))
clampVolume(volume) == Max(MinVolume, Min(MaxVolume, volume))
clampRate(rate) == Max(MinRate, Min(MaxRate, rate))

\* controls.setVolume / setPlaybackRate of the facade: the clamped value goes
\* to the element the facade holds, the argument to the published state
setVolume(s, volume) ==
    IF s.audioRef = NoHandle THEN s
    ELSE [s EXCEPT !.settings.volume[s.audioRef] = clampVolume(volume),
                   !.settings.pubVolume = volume]

setPlaybackRate(s, rate) ==
    IF s.audioRef = NoHandle THEN s
    ELSE [s EXCEPT !.settings.playbackRate[s.audioRef] = clampRate(rate),
                   !.settings.pubPlaybackRate = rate]

\* a skip forward that leaves the seconds out
skipForwardNoSeconds(s, seconds) ==
    seekToVirtualTimeAs(s, getCurrentVirtualTime(s), "skip")

\* controls.skipForward / skipBackward of the facade
skipForward(s, seconds) ==
    seekToVirtualTimeAs(s, getCurrentVirtualTime(s) + seconds, "skip")

skipBackward(s, seconds) ==
    seekToVirtualTimeAs(s, Max(0, getCurrentVirtualTime(s) - seconds), "skip")

\* ========================= GaplessAudioStreamer ==========================

\* callbacks.onError of the gapless streamer
gaplessOnError(s, type) ==
    [s EXCEPT !.gapless.error = [type |-> type, chunk |-> None]]

\* GaplessAudioStreamer.initialize() succeeding
gaplessInitialize(s) ==
    [s EXCEPT
        !.resolver = storeSignedUrls(
                        [@ EXCEPT !.engine = "gapless", !.bookLen = NumChunks],
                        initialBatch("gapless", NumChunks), Lifetime),
        !.gapless = [@ EXCEPT !.player = TRUE, !.isInitialized = TRUE,
                              !.signal = "ok"]]

\* the rest of seekToVirtualTime once ensureSignedUrl has returned; without
\* a player the calls on it throw
gaplessSeekFinish(s, pos) ==
    IF ~s.gapless.player
    THEN [s EXCEPT !.gapless.seek = <<>>, !.gapless.signal = "failed"]
    ELSE [s EXCEPT
            !.gapless = [@ EXCEPT
                !.isPlaying = IF pos.chunkIndex # s.gapless.currentChunk
                              THEN TRUE ELSE @,
                !.currentChunk = pos.chunkIndex,
                !.position = pos.localTime * MsPerSecond,
                !.seek = <<>>, !.signal = "ok"]]

\* GaplessAudioStreamer.seekToVirtualTime(virtualTime) up to its first
\* suspension
gaplessSeekToVirtualTime(s, virtualTime) ==
    IF ~s.gapless.player \/ ~s.gapless.isInitialized
    THEN [s EXCEPT !.gapless.signal = "failed"]
    ELSE LET pos == getChunkPosition(virtualTime)
         IN  IF hasValidUrl(s.resolver, pos.chunkIndex)
             THEN gaplessSeekFinish(s, pos)
             ELSE [s EXCEPT !.resolver = getChunkUrl(@, pos.chunkIndex),
                            !.gapless.seek = <<pos>>,
                            !.gapless.signal = "none"]

\* the catch of seekToVirtualTime around ensureSignedUrl: onError, return
gaplessSeekCatch(s) ==
    [gaplessOnError(s, "network") EXCEPT !.gapless.seek = <<>>,
                                         !.gapless.signal = "ok"]

\* GaplessAudioStreamer.play()
gaplessPlay(s) ==
    IF ~s.gapless.player THEN [s EXCEPT !.gapless.signal = "failed"]
    ELSE [s EXCEPT !.gapless.isPlaying = TRUE, !.gapless.signal = "ok"]

\* GaplessAudioStreamer.pause()
gaplessPause(s) ==
    IF ~s.gapless.player THEN [s EXCEPT !.gapless.signal = "ok"]
    ELSE [s EXCEPT !.gapless.isPlaying = FALSE, !.gapless.signal = "ok"]

\* GaplessAudioStreamer.cleanup()
gaplessCleanup(s) ==
    [s EXCEPT
        !.resolver = [@ EXCEPT !.url = NoResolver.url, !.exp = NoResolver.exp],
        !.gapless = [@ EXCEPT !.player = FALSE, !.isInitialized = FALSE,
                              !.isPlaying = FALSE, !.currentChunk = 0,
                              !.position = 0, !.signal = "ok"]]

\* ============================== actions ==================================

Init ==
    /\ isInitialized = FALSE
    /\ currentChunk = 0
    /\ activePrimary = TRUE
    /\ isTransitioning = FALSE
    /\ audio = [h \in Handles |-> EmptyAudio]
    /\ chunkCache = {}
    /\ preloadQueue = {}
    /\ prefetchQueue = {}
    /\ preps = {}
    /\ loads = {}
    /\ microtask = <<>>
    /\ audioRef = NoHandle
    /\ currentChunkRef = 0
    /\ pubIsPlaying = FALSE
    /\ currentError = NoError
    /\ firstLoad = FALSE
    /\ seekTo = None
    /\ ops = 0
    /\ elements = FALSE
    /\ signedUrls = {}
    /\ timelineTotal = 0
    /\ orphanSounding = FALSE
    /\ initTrigger = TRUE
    /\ resolver = NoResolver
    /\ urlRequests = {}
    /\ settings = DefaultSettings
    /\ gapless = NoGapless
    /\ timeline = NoTimeline
    /\ facade = NoFacade
    /\ blobUrls = NoBlobUrls
    /\ observe = FALSE
    /\ published = None

\* no task runs between a resolved await and its continuation
Idle == microtask = <<>>

\* the user calls a control; a download or a media load fails
UserOp(s) == [s EXCEPT !.ops = @ + 1]
Fault(s) == [s EXCEPT !.ops = @ + 1]
CanUserOp == Idle /\ audioRef # NoHandle /\ ops < MaxOps
CanFault == Idle /\ ops < MaxOps

\* useAudio.initializeAudio with AudioStreamer.initialize succeeding: the
\* elements exist, the first chunks are being prefetched, the facade holds the
\* element that is active now
InitializeAudio ==
    /\ Idle /\ ~isInitialized /\ initTrigger
    /\ LET s1 == initialize(State)
       IN  Commit([s1 EXCEPT !.audioRef = getActiveAudio(s1),
                             !.pubIsPlaying = FALSE,
                             !.settings = DefaultSettings,
                             !.initTrigger = FALSE])

\* AudioStreamer.initialize throwing: onError, and the facade's catch
InitializeFail ==
    /\ CanFault /\ ~isInitialized /\ initTrigger
    /\ Commit([Fault(setCurrentError(State, "network", None)) EXCEPT
                  !.initTrigger = TRUE])

\* the facade's effect that loads chunk 0 once initialization is done
FacadeLoadFirstChunk ==
    /\ Idle /\ isInitialized /\ audioRef # NoHandle /\ ~firstLoad
    /\ Commit(loadChunk([State EXCEPT !.firstLoad = TRUE], 0, "facade", 0))

\* a loadChunk download completes
LoadOk(l) ==
    /\ Idle /\ l \in loads
    /\ LET s1 == chunkCacheSet([State EXCEPT !.loads = @ \ {l}], l.chunk)
       IN  Commit(loadChunkThen(loadChunkCommit(s1, l.chunk), l.chunk, l.kind, l.local))

\* a loadChunk download fails: onError(network, chunk), then the caller's catch
LoadFail(l) ==
    /\ CanFault /\ l \in loads
    /\ LET s1 == Fault([State EXCEPT !.loads = @ \ {l}])
       IN  Commit(loadChunkCatch(setCurrentError(s1, "network", l.chunk),
                                 l.chunk, l.kind))

\* the rest of seekToVirtualTime after `await this.loadChunk(...)`. The
\* 'timeupdate' that follows a seek finds the position at a chunk start or on
\* the last chunk (SeekTimes), where handleTimeUpdate starts no preparation
SeekSetTime ==
    /\ microtask # <<>>
    /\ Commit([State EXCEPT
            !.audio[getActiveAudio(State)].time =
                IF elements THEN microtask[1] ELSE @,
            !.microtask = <<>>,
            !.published = None])

\* controls.seekToVirtualTime(virtualTime) of the facade
SeekToVirtualTime(t) ==
    /\ CanUserOp
    /\ \A l \in loads : l.kind # "seek"
    /\ LET c == getChunkPosition(t).chunkIndex
           s1 == [UserOp(State) EXCEPT
                     !.seekTo = IF isInitialized /\ isTransitioning /\ c # currentChunk
                                THEN c ELSE None,
                     !.published = None]
       IN  Commit(seekToVirtualTime(s1, t))

\* controls.play() of the facade: play() on the element the facade holds
FacadePlay ==
    /\ CanUserOp
    /\ LET s1 == UserOp(State)
       IN  Commit(IF audio[audioRef].src = None \/ audio[audioRef].load = "error"
                  THEN setCurrentError(s1, "playback", None)
                  ELSE playAudio(s1, audioRef))

\* controls.pause() of the facade
FacadePause ==
    /\ CanUserOp
    /\ Commit(pauseAudio(UserOp(State), audioRef))

\* a playing element advances one unit and fires 'timeupdate'
Tick(h) ==
    /\ Idle
    /\ audio[h].playing /\ audio[h].load = "ready"
    /\ audio[h].time < chunkDurations[audio[h].src]
    /\ LET s1 == [State EXCEPT !.audio[h].time = @ + 1]
       IN  Commit(IF isActiveAudio(s1, h) THEN handleTimeUpdate(s1, h) ELSE s1)

\* a playing element reaches its end: it is paused ('pause'), then 'ended'
Ended(h) ==
    /\ Idle
    /\ audio[h].playing /\ audio[h].load = "ready"
    /\ audio[h].time >= chunkDurations[audio[h].src]
    /\ LET s1 == [pauseAudio(State, h) EXCEPT
                     !.seekTo = IF audio[h].src = @ THEN None ELSE @]
       IN  Commit(IF isActiveAudio(s1, h) THEN handleChunkEnd(s1) ELSE s1)

\* an element finishes loading its resource: 'loadedmetadata', 'canplay'
MediaLoaded(h) ==
    /\ Idle /\ audio[h].load = "loading"
    /\ Commit([State EXCEPT
            !.audio[h].load = "ready",
            !.preps = {p \in @ : ~(p.phase = "canplay" /\ p.handle = h)}])

\* an element fails to load its resource: 'error'
MediaError(h) ==
    /\ CanFault /\ audio[h].load = "loading"
    /\ LET waiting == {p \in preps : p.phase = "canplay" /\ p.handle = h}
           s1 == [Fault(State) EXCEPT
                     !.audio[h].load = "error",
                     !.preps = @ \ waiting,
                     !.isTransitioning = IF waiting # {} THEN FALSE ELSE @]
       IN  Commit(IF h = audioRef
                  THEN setCurrentError(s1, "playback", currentChunkRef)
                  ELSE s1)

\* performPreload(c) resolves: the chunk is cached and every suspended
\* prepareSeamlessTransition waiting for it goes on
PreloadOk(c) ==
    /\ Idle /\ \E p \in preps : p.phase = "fetch" /\ p.chunk = c
    /\ LET waiting == {p \in preps : p.phase = "fetch" /\ p.chunk = c}
           s1 == chunkCacheSet([State EXCEPT !.preloadQueue = @ \ {c},
                                             !.preps = @ \ waiting], c)
       IN  Commit(IF waiting # {} THEN loadIntoInactive(s1, c) ELSE s1)

\* performPreload(c) rejects: the catch of prepareSeamlessTransition
PreloadFail(c) ==
    /\ CanFault /\ \E p \in preps : p.phase = "fetch" /\ p.chunk = c
    /\ LET waiting == {p \in preps : p.phase = "fetch" /\ p.chunk = c}
       IN  Commit([Fault(State) EXCEPT
                !.preloadQueue = @ \ {c},
                !.preps = @ \ waiting,
                !.isTransitioning = IF waiting # {} THEN FALSE ELSE @])

\* prefetch downloads settle in chunk order
NextPrefetch(c) == c \in prefetchQueue /\ \A d \in prefetchQueue : c <= d

\* a prefetchChunks download completes
PrefetchOk(c) ==
    /\ Idle /\ NextPrefetch(c)
    /\ Commit(chunkCacheSet([State EXCEPT !.prefetchQueue = @ \ {c}], c))

\* a prefetchChunks download fails: logged only
PrefetchFail(c) ==
    /\ CanFault /\ NextPrefetch(c)
    /\ Commit([Fault(State) EXCEPT !.prefetchQueue = @ \ {c}])

\* virtual times the user seeks to: every chunk start and the very end
SeekTimes == {chunkOffsets[i] : i \in Chunks} \cup {getTotalDuration}

Next ==
    \/ InitializeAudio
    \/ InitializeFail
    \/ FacadeLoadFirstChunk
    \/ \E l \in loads : LoadOk(l)
    \/ \E l \in loads : LoadFail(l)
    \/ SeekSetTime
    \/ \E t \in SeekTimes : SeekToVirtualTime(t)
    \/ FacadePlay
    \/ FacadePause
    \/ \E h \in Handles : Tick(h)
    \/ \E h \in Handles : Ended(h)
    \/ \E h \in Handles : MediaLoaded(h)
    \/ \E h \in Handles : MediaError(h)
    \/ \E c \in Chunks : PreloadOk(c)
    \/ \E c \in Chunks : PreloadFail(c)
    \/ \E c \in Chunks : PrefetchOk(c)
    \/ \E c \in Chunks : PrefetchFail(c)

Spec == Init /\ [][Next]_vars

\* the same program, with the publications of the virtual time recorded
InitObserved ==
    /\ isInitialized = FALSE
    /\ currentChunk = 0
    /\ activePrimary = TRUE
    /\ isTransitioning = FALSE
    /\ audio = [h \in Handles |-> EmptyAudio]
    /\ chunkCache = {}
    /\ preloadQueue = {}
    /\ prefetchQueue = {}
    /\ preps = {}
    /\ loads = {}
    /\ microtask = <<>>
    /\ audioRef = NoHandle
    /\ currentChunkRef = 0
    /\ pubIsPlaying = FALSE
    /\ currentError = NoError
    /\ firstLoad = FALSE
    /\ seekTo = None
    /\ ops = 0
    /\ elements = FALSE
    /\ signedUrls = {}
    /\ timelineTotal = 0
    /\ orphanSounding = FALSE
    /\ initTrigger = TRUE
    /\ resolver = NoResolver
    /\ urlRequests = {}
    /\ settings = DefaultSettings
    /\ gapless = NoGapless
    /\ timeline = NoTimeline
    /\ facade = NoFacade
    /\ blobUrls = NoBlobUrls
    /\ observe = TRUE
    /\ published = None

PubSpec == InitObserved /\ [][Next]_vars

\* cleanup() is called on the engine
Cleanup ==
    /\ Idle /\ ops < MaxOps
    /\ Commit(cleanup(UserOp(State)))

\* initialize() is called on the engine a second time; the element the
\* facade holds then belongs to the earlier initialization, and the facade's
\* controls are not followed further
InitializeAgain ==
    /\ CanUserOp /\ isInitialized
    /\ Commit([initialize(UserOp(State)) EXCEPT !.audioRef = NoHandle])

\* the element of an earlier initialization plays to its end
OrphanEnded ==
    /\ Idle /\ orphanSounding
    /\ Commit([State EXCEPT !.orphanSounding = FALSE])

NextLifecycle ==
    \/ Next
    \/ Cleanup
    \/ InitializeAgain
    \/ OrphanEnded

\* the same program with cleanup() and a repeated initialize() of the engine
LifecycleSpec == Init /\ [][NextLifecycle]_vars

\* the run follows the blob URLs
InitBlobUrls ==
    /\ isInitialized = FALSE
    /\ currentChunk = 0
    /\ activePrimary = TRUE
    /\ isTransitioning = FALSE
    /\ audio = [h \in Handles |-> EmptyAudio]
    /\ chunkCache = {}
    /\ preloadQueue = {}
    /\ prefetchQueue = {}
    /\ preps = {}
    /\ loads = {}
    /\ microtask = <<>>
    /\ audioRef = NoHandle
    /\ currentChunkRef = 0
    /\ pubIsPlaying = FALSE
    /\ currentError = NoError
    /\ firstLoad = FALSE
    /\ seekTo = None
    /\ ops = 0
    /\ elements = FALSE
    /\ signedUrls = {}
    /\ timelineTotal = 0
    /\ orphanSounding = FALSE
    /\ initTrigger = TRUE
    /\ resolver = NoResolver
    /\ urlRequests = {}
    /\ settings = DefaultSettings
    /\ gapless = NoGapless
    /\ timeline = NoTimeline
    /\ facade = NoFacade
    /\ blobUrls = [NoBlobUrls EXCEPT !.observe = TRUE]
    /\ observe = FALSE
    /\ published = None

\* the program with cleanup(), every blob URL followed
BlobSpec == InitBlobUrls /\ [][NextLifecycle]_vars

\* ---- the hook on its own ------------------------------------------------

\* books the hook is asked to play
Books == {1, 2}

\* initialize(newBookId) of the hook is called
HookInitialize(b) ==
    /\ ops < MaxOps
    /\ Commit([UserOp(State) EXCEPT !.facade = facadeInitialize(@, b)])

\* cleanup() of the hook is called
HookCleanup ==
    /\ ops < MaxOps /\ facade.bookId # <<>>
    /\ Commit([UserOp(State) EXCEPT !.facade = facadeCleanup(@)])

\* the book query delivers the book of bookId
BookLoaded ==
    /\ facade.bookId # <<>> /\ ~facade.book
    /\ Commit([State EXCEPT !.facade = [@ EXCEPT !.book = TRUE,
                                                  !.effectDue = TRUE]])

\* the initialization effect runs after a render that changed one of its
\* dependencies
InitializeEffect ==
    /\ facade.effectDue
    /\ Commit([State EXCEPT !.facade = initializeEffect(@)])

\* streamer.initialize() of a pending initializeAudio call resolves
InitializeAudioResume(p) ==
    /\ p \in facade.pending
    /\ Commit([State EXCEPT !.facade = initializeAudioResume(@, p)])

\* streamer.initialize() of a pending initializeAudio call rejects
InitializeAudioCatch(p) ==
    /\ p \in facade.pending /\ ops < MaxOps
    /\ Commit([Fault(State) EXCEPT !.facade = initializeAudioCatch(@, p)])

NextFacade ==
    \/ \E b \in Books : HookInitialize(b)
    \/ HookCleanup
    \/ BookLoaded
    \/ InitializeEffect
    \/ \E p \in facade.pending : InitializeAudioResume(p)
    \/ \E p \in facade.pending : InitializeAudioCatch(p)

\* the hook while books are chosen, cleaned up and initialized
FacadeSpec == Init /\ [][NextFacade]_vars

\* values the user passes to the setters, in hundredths
Volumes == {-50, 50, 150}
Rates == {10, 200, 500}

\* seconds the user skips by
SkipSeconds == {0, 1, ChunkDur, NumChunks * ChunkDur + 1}

SetVolume(v) ==
    /\ CanUserOp
    /\ Commit(setVolume(UserOp(State), v))

SetPlaybackRate(r) ==
    /\ CanUserOp
    /\ Commit(setPlaybackRate(UserOp(State), r))

\* controls.play() of the facade while it holds no element: it returns
FacadePlayNoElement ==
    /\ Idle /\ audioRef = NoHandle /\ ops < MaxOps
    /\ Commit(UserOp(State))

\* controls.skipForward(x) / skipBackward(x) once the facade holds the
\* streamer and has published a state
SkipForward(x) ==
    /\ CanUserOp /\ isInitialized
    /\ \A l \in loads : l.kind \notin {"seek", "skip"}
    /\ Commit(skipForward([UserOp(State) EXCEPT !.published = None], x))

SkipBackward(x) ==
    /\ CanUserOp /\ isInitialized
    /\ \A l \in loads : l.kind \notin {"seek", "skip"}
    /\ Commit(skipBackward([UserOp(State) EXCEPT !.published = None], x))

NextControls ==
    \/ Next
    \/ \E v \in Volumes : SetVolume(v)
    \/ \E r \in Rates : SetPlaybackRate(r)
    \/ FacadePlayNoElement
    \/ \E x \in SkipSeconds : SkipForward(x)
    \/ \E x \in SkipSeconds : SkipBackward(x)

\* the same program with the remaining controls of the facade
ControlsSpec == Init /\ [][NextControls]_vars

\* a batched request of signed URLs of the engine is answered: the URLs are
\* stored and the call that waited goes on to its download
ResolveOk(r) ==
    /\ Idle /\ r \in urlRequests
    /\ LET s1 == [State EXCEPT
                     !.urlRequests = @ \ {r},
                     !.resolver = storeSignedUrls(@, r.indices, Lifetime),
                     !.signedUrls = @ \cup {r.indices[k] : k \in 1 .. Len(r.indices)}]
           waiting == {p \in preps : p.phase = "resolve" /\ p.chunk = r.chunk}
       IN  Commit(CASE r.purpose = "load" ->
                         [s1 EXCEPT !.loads = @ \cup
                             {[chunk |-> r.chunk, kind |-> r.kind, local |-> r.local]}]
                    [] r.purpose = "prefetch" ->
                         [s1 EXCEPT !.prefetchQueue = @ \cup {r.chunk}]
                    [] r.purpose = "preload" ->
                         [s1 EXCEPT !.preps = (@ \ waiting) \cup
                             {[phase |-> "fetch", chunk |-> r.chunk,
                               handle |-> NoHandle]}]
                    [] OTHER -> prefetchChunks(s1, r.upcoming))

\* a batched request of signed URLs of the engine fails: the catch of
\* generateSignedUrls calls onError and throws again; then the catch of the
\* call that waited
ResolveFail(r) ==
    /\ CanFault /\ r \in urlRequests
    /\ LET s1 == setCurrentError(Fault([State EXCEPT !.urlRequests = @ \ {r}]),
                                 "network", None)
           waiting == {p \in preps : p.phase = "resolve" /\ p.chunk = r.chunk}
       IN  Commit(CASE r.purpose = "load" ->
                         loadChunkCatch(setCurrentError(s1, "network", r.chunk),
                                        r.chunk, r.kind)
                    [] r.purpose = "prefetch" -> s1
                    [] r.purpose = "preload" ->
                         [s1 EXCEPT !.preloadQueue = @ \ {r.chunk},
                                    !.preps = @ \ waiting,
                                    !.isTransitioning =
                                        IF waiting # {} THEN FALSE ELSE @]
                    [] OTHER ->
                         prefetchChunks(s1, {c \in r.upcoming :
                                                 s1.resolver.url[c] # 0}))

\* time passes: after 3 minutes the first signed URLs are near their expiry,
\* after 8 they have expired. The waits count among the operations of a run
TimeSteps == {3, 8}

TimePasses(d) ==
    /\ Idle /\ isInitialized /\ ops < MaxOps /\ resolver.now + d <= MaxNow
    /\ Commit([UserOp(State) EXCEPT !.resolver = [@ EXCEPT !.now = @ + d]])

NextExpiry ==
    \/ Next
    \/ \E r \in urlRequests : ResolveOk(r)
    \/ \E r \in urlRequests : ResolveFail(r)
    \/ \E d \in TimeSteps : TimePasses(d)

\* the same program while time passes and signed URLs expire
ExpirySpec == Init /\ [][NextExpiry]_vars

\* lifetimes of signed URLs the server grants, in units of 60 s
ExpiresIn == {1, 3, 8}

\* book lengths
BookLens == {1, 3, 7, MaxBook}

\* a streamer is initialized for a book of n chunks: the first batch is asked
ResolverInitialize(engine, n) ==
    /\ resolver.engine = "none"
    /\ LET indices == initialBatch(engine, n)
       IN  Commit([State EXCEPT !.resolver =
                [@ EXCEPT !.engine = engine, !.bookLen = n, !.request = indices,
                          !.pending = <<[chunk |-> None, indices |-> indices]>>]])

\* a consumer asks for the URL of chunk c
ResolverCall(c) ==
    /\ resolver.engine # "none" /\ resolver.pending = <<>>
    /\ c < resolver.bookLen /\ resolver.calls < MaxCalls
    /\ Commit([State EXCEPT !.resolver = getChunkUrl(@, c)])

\* the batched request is answered: the URLs are stored and the call that
\* waited returns the URL of its chunk
ResolverResponse(e) ==
    /\ resolver.pending # <<>>
    /\ LET p == resolver.pending[1]
           r1 == storeSignedUrls(resolver, p.indices, e)
       IN  Commit([State EXCEPT !.resolver =
                [r1 EXCEPT !.pending = <<>>,
                           !.returned = IF p.chunk = None THEN 0
                                        ELSE r1.url[p.chunk]]])

\* the batched request fails: the call throws
ResolverResponseFail ==
    /\ resolver.pending # <<>>
    /\ Commit([State EXCEPT !.resolver = [@ EXCEPT !.pending = <<>>,
                                                    !.returned = 0]])

\* a unit of time passes
AdvanceTime ==
    /\ resolver.engine # "none" /\ resolver.now < MaxNow
    /\ Commit([State EXCEPT !.resolver = [@ EXCEPT !.now = @ + 1]])

NextResolver ==
    \/ \E engine \in {"dual", "gapless"}, n \in BookLens :
          ResolverInitialize(engine, n)
    \/ \E c \in BookChunks : ResolverCall(c)
    \/ \E e \in ExpiresIn : ResolverResponse(e)
    \/ ResolverResponseFail
    \/ AdvanceTime

\* the resolution of signed URLs of both streamers on its own
UrlSpec == Init /\ [][NextResolver]_vars

\* ---- the gapless streamer on its own ------------------------------------

GaplessInitialize ==
    /\ ~gapless.isInitialized /\ resolver.pending = <<>>
    /\ Commit(gaplessInitialize(State))

\* initialize() fails: onError, and the error is thrown again
GaplessInitializeFail ==
    /\ ~gapless.isInitialized /\ resolver.pending = <<>> /\ ops < MaxOps
    /\ Commit([gaplessOnError(Fault(State), "network") EXCEPT
                  !.gapless.signal = "failed"])

GaplessSeek(t) ==
    /\ gapless.seek = <<>> /\ ops < MaxOps
    /\ Commit(gaplessSeekToVirtualTime(UserOp(State), t))

\* the request of ensureSignedUrl is answered
GaplessSeekResolved ==
    /\ gapless.seek # <<>> /\ resolver.pending # <<>>
    /\ LET r1 == storeSignedUrls(resolver, resolver.pending[1].indices, Lifetime)
       IN  Commit(gaplessSeekFinish(
                    [State EXCEPT !.resolver = [r1 EXCEPT !.pending = <<>>]],
                    gapless.seek[1]))

\* the request of ensureSignedUrl fails
GaplessSeekFail ==
    /\ gapless.seek # <<>> /\ resolver.pending # <<>> /\ ops < MaxOps
    /\ Commit(gaplessSeekCatch(
                [Fault(State) EXCEPT !.resolver.pending = <<>>]))

GaplessPlay ==
    /\ ops < MaxOps
    /\ Commit(gaplessPlay(UserOp(State)))

GaplessPause ==
    /\ ops < MaxOps /\ gapless.isPlaying
    /\ Commit(gaplessPause(UserOp(State)))

\* the player advances one second and fires ontimeupdate; at the end of a
\* track it goes on to the next one, at the end of the last one it stops
GaplessTimeUpdate ==
    /\ gapless.player /\ gapless.isPlaying
    /\ LET c == gapless.currentChunk
           atEnd == gapless.position >= chunkDurations[c] * MsPerSecond
       IN  Commit([State EXCEPT !.gapless =
                CASE ~atEnd -> [@ EXCEPT !.position = @ + MsPerSecond]
                  [] atEnd /\ c < NumChunks - 1 ->
                        [@ EXCEPT !.currentChunk = c + 1, !.position = 0]
                  [] OTHER -> [@ EXCEPT !.isPlaying = FALSE]])

\* player.onerror
GaplessPlayerError ==
    /\ gapless.player /\ ops < MaxOps
    /\ Commit(gaplessOnError(Fault(State), "playback"))

GaplessCleanup ==
    /\ gapless.isInitialized /\ ops < MaxOps
    /\ Commit(gaplessCleanup(UserOp(State)))

NextGapless ==
    \/ GaplessInitialize
    \/ GaplessInitializeFail
    \/ \E t \in SeekTimes : GaplessSeek(t)
    \/ GaplessSeekResolved
    \/ GaplessSeekFail
    \/ GaplessPlay
    \/ GaplessPause
    \/ GaplessTimeUpdate
    \/ GaplessPlayerError
    \/ GaplessCleanup
    \/ AdvanceTime

\* the gapless streamer and the resolution of its signed URLs
GaplessSpec == Init /\ [][NextGapless]_vars

\* ---- the timeline manager on its own ------------------------------------

\* chunk lists of the API: any order of seq, gaps, duplicates, durations of 0
\* and below
ChunkLists ==
    UNION {[1 .. n -> [seq : 0 .. MaxSeq, duration_s : -1 .. MaxDur]] :
              n \in 0 .. MaxChunks}

\* virtual times asked for: from before 0 to past the longest book
QueryTimes == -1 .. (MaxChunks * MaxDur + 1)

TimelineInitialize(chunks) ==
    /\ ~timeline.initialized
    /\ LET tl == timelineInitialize(chunks)
       IN  Commit([State EXCEPT !.timeline =
                [@ EXCEPT !.initialized = TRUE, !.input = chunks,
                          !.chunkDurations = tl.chunkDurations,
                          !.chunkOffsets = tl.chunkOffsets,
                          !.totalDuration = tl.totalDuration,
                          !.chunks = tl.chunks]])

\* getChunkPosition(t) on a book with chunks: both streamers refuse a book
\* without chunks before they initialize the timeline. The methods called
\* here only read the tables, so each manager is followed up to its first call
TimelineGetChunkPosition(t) ==
    /\ timeline.initialized /\ timeline.chunkDurations # <<>>
    /\ ~timeline.asked /\ timeline.call = NoCall
    /\ Commit([State EXCEPT !.timeline =
            [@ EXCEPT !.asked = TRUE, !.query = t,
                      !.result = timelineGetChunkPosition(timeline, t),
                      !.call = NoCall]])

\* chunk indices and local times asked for: from before the first to past
\* the last chunk, from before 0 to past the longest chunk
ChunkIndices == -1 .. MaxChunks
LocalTimes == -1 .. (MaxDur + 1)
Thresholds == 0 .. MaxDur

\* getVirtualTime(i, l) on a book with chunks
TimelineGetVirtualTime(i, l) ==
    /\ timeline.initialized /\ timeline.chunkDurations # <<>>
    /\ ~timeline.asked /\ timeline.call = NoCall
    /\ Commit([State EXCEPT !.timeline =
            [@ EXCEPT !.asked = FALSE, !.query = 0,
                      !.result = NoTimeline.result,
                      !.call = [NoCall EXCEPT
                          !.method = "getVirtualTime",
                          !.chunkIndex = i, !.localTime = l,
                          !.value = timelineGetVirtualTime(timeline, i, l)]]])

\* isNearChunkEnd(t, th) on a book with chunks
TimelineIsNearChunkEnd(t, th) ==
    /\ timeline.initialized /\ timeline.chunkDurations # <<>>
    /\ ~timeline.asked /\ timeline.call = NoCall
    /\ Commit([State EXCEPT !.timeline =
            [@ EXCEPT !.asked = FALSE, !.query = t,
                      !.result = NoTimeline.result,
                      !.call = [NoCall EXCEPT
                          !.method = "isNearChunkEnd", !.threshold = th,
                          !.near = timelineIsNearChunkEnd(timeline, t, th)]]])

\* one time of test(): the position of t, and the time of that position
TimelineTest(t) ==
    /\ timeline.initialized /\ timeline.chunkDurations # <<>>
    /\ ~timeline.asked /\ timeline.call = NoCall
    /\ LET pos == timelineGetChunkPosition(timeline, t)
           reconstructedTime ==
               timelineGetVirtualTime(timeline, pos.chunkIndex, pos.localTime)
       IN  Commit([State EXCEPT !.timeline =
               [@ EXCEPT !.asked = TRUE, !.query = t, !.result = pos,
                         !.call = [NoCall EXCEPT
                             !.method = "test", !.chunkIndex = pos.chunkIndex,
                             !.localTime = pos.localTime,
                             !.value = reconstructedTime]]])

NextTimeline ==
    \/ \E chunks \in ChunkLists : TimelineInitialize(chunks)
    \/ \E t \in QueryTimes : TimelineGetChunkPosition(t)
    \/ \E i \in ChunkIndices, l \in LocalTimes : TimelineGetVirtualTime(i, l)
    \/ \E t \in QueryTimes, th \in Thresholds : TimelineIsNearChunkEnd(t, th)
    \/ \E t \in QueryTimes : TimelineTest(t)

\* the timeline manager on chunk lists of every shape
TimelineSpec == Init /\ [][NextTimeline]_vars

\* ======================= properties of the claims ========================

Active == getActiveAudio(State)
Inactive == getInactiveAudio(State)

\* the element is producing sound
Sounding(a, h) == a[h].playing /\ a[h].load = "ready"

\* no seekToVirtualTime call is suspended
SeekSettled == microtask = <<>> /\ \A l \in loads : l.kind # "seek"

\* the active element's 'ended' is handled by handleChunkEnd
ChunkEnd(h) == Ended(h) /\ isInitialized /\ isActiveAudio(State, h)

\* C1: a seek into another chunk c made while a transition is in flight
\* supersedes it: once the seek has returned, handling the 'ended' of the old
\* element leaves the engine at chunk c, with no element sounding another chunk.
C1_SeekSupersedesTransition ==
    [][(\E h \in Handles : ChunkEnd(h)) /\ SeekSettled /\ seekTo' # None
        => /\ currentChunk' = seekTo'
           /\ \A h \in Handles : Sounding(audio', h) => audio'[h].src = seekTo']_vars

\* seekToVirtualTime returns to its caller in this step
SeekReturns ==
    \/ SeekSetTime
    \/ \E t \in SeekTimes :
          /\ SeekToVirtualTime(t)
          /\ isInitialized
          /\ getChunkPosition(t).chunkIndex = currentChunk

\* C2: whenever seekToVirtualTime returns, isTransitioning is false.
C2_SeekForcesIdle == [][SeekReturns => ~isTransitioning']_vars

\* C3: the resource loaded in the active element is that of chunk currentChunk.
C3_PositionMatchesHandle ==
    isInitialized /\ microtask = <<>> /\ audio[Active].src # None
        => audio[Active].src = currentChunk

\* C4: when a seek into another chunk has changed currentChunk and fired
\* onChunkChange, the active element, if it holds a chunk at all, already
\* holds that chunk at the sought local time.
C4_SeekReportsAfterLoad ==
    microtask # <<>> /\ audio[Active].src # None
        => /\ audio[Active].src = currentChunk
           /\ audio[Active].time = microtask[1]

\* C5: the active and the inactive element are swapped only when the next
\* chunk has finished loading into the inactive element.
C5_SwapOnlyWhenPreloaded ==
    [][activePrimary' # activePrimary
        => /\ audio[Inactive].src = currentChunk + 1
           /\ audio[Inactive].load = "ready"]_vars

\* nothing is in flight and no element is loading or playing: only a call of a
\* control can change the state
Quiescent ==
    /\ loads = {} /\ preps = {} /\ preloadQueue = {} /\ prefetchQueue = {}
    /\ microtask = <<>>
    /\ \A h \in Handles : ~audio[h].playing /\ audio[h].load # "loading"

\* the active element ends on a chunk that is not the last one
NonLastChunkEnd ==
    \E h \in Handles : ChunkEnd(h) /\ currentChunk < NumChunks - 1

\* C6: handling 'ended' on a chunk that is not the last never leaves the engine
\* silent with nothing in flight and no error signalled.
C6_NoStuckAfterChunkEnd ==
    [][NonLastChunkEnd => ~(Quiescent' /\ currentError' = currentError)]_vars

\* the next chunk is loaded in the inactive element and canplay has fired
Prepared ==
    /\ isTransitioning
    /\ audio[Inactive].src = currentChunk + 1
    /\ audio[Inactive].load = "ready"

\* C7: 'ended' on chunk i with the next chunk prepared makes chunk i+1 current,
\* makes the element that was inactive the active one and playing, clears
\* isTransitioning and puts the virtual time at the offset of chunk i+1.
C7_SeamlessTransitionPost ==
    [][NonLastChunkEnd /\ Prepared
        => /\ currentChunk' = currentChunk + 1
           /\ activePrimary' = ~activePrimary
           /\ Sounding(audio', Inactive)
           /\ ~isTransitioning'
           /\ getCurrentVirtualTime(State)' = chunkOffsets[currentChunk + 1]]_vars

\* C8: at most one of the two elements is sounding.
C8_OneHandleSounding ==
    ~(Sounding(audio, "primary") /\ Sounding(audio, "secondary"))

\* the active element ends on the last chunk
LastChunkEnd ==
    \E h \in Handles : ChunkEnd(h) /\ currentChunk = NumChunks - 1

\* C9: 'ended' on the last chunk stops playback: the published playing flag is
\* false, no element sounds, and no chunk is loaded and no swap is made.
C9_EndOfBookStops ==
    [][LastChunkEnd
        => /\ ~pubIsPlaying'
           /\ \A h \in Handles : ~Sounding(audio', h)
           /\ currentChunk' = currentChunk
           /\ activePrimary' = activePrimary
           /\ loads' = loads /\ preps' = preps]_vars

\* the tick of element h brings the active element within the threshold of
\* the end of the current chunk
NearChunkEnd(h) ==
    /\ isInitialized /\ isActiveAudio(State, h)
    /\ chunkDurations[currentChunk] - (audio[h].time + 1) <= transitionThreshold

\* the preparation a tick starts for chunk next: a download of the chunk, or,
\* the chunk being cached, its load into the inactive element
fetchPrep(next) == [phase |-> "fetch", chunk |-> next, handle |-> NoHandle]
canplayPrep(next) == [phase |-> "canplay", chunk |-> next, handle |-> Inactive]
StartsOnePreparation(next) ==
    /\ isTransitioning'
    /\ activePrimary' = activePrimary /\ currentChunk' = currentChunk
    /\ IF next \in chunkCache
       THEN /\ preps' = preps \cup {canplayPrep(next)}
            /\ preloadQueue' = preloadQueue
            /\ audio'[Inactive].src = next /\ audio'[Inactive].load = "loading"
       ELSE /\ preps' = preps \cup {fetchPrep(next)}
            /\ preloadQueue' = preloadQueue \cup {next}
            /\ audio'[Inactive] = audio[Inactive]

\* a step of a preparation: the tick that starts it, or the end of its download
PreparationStep ==
    \/ \E h \in Handles : Tick(h)
    \/ \E c \in Chunks : PreloadOk(c)

C11_MonotonicPublication ==
    [][published # None /\ published' # None => published' >= published]_vars

\* C12: every tick of the active element of an initialized engine publishes
\* the current virtual time.
C12_EveryTickPublishes ==
    [][\A h \in Handles :
          Tick(h) /\ isInitialized /\ isActiveAudio(State, h)
              => published' = getCurrentVirtualTime(State)']_vars

\* the state cleanup() has to leave: caches empty, no element held, fields
\* at their initial values
CleanedUp(s) ==
    /\ s.chunkCache = {} /\ s.signedUrls = {} /\ s.preloadQueue = {}
    /\ ~s.elements
    /\ s.currentChunk = 0 /\ s.activePrimary
    /\ ~s.isTransitioning /\ ~s.isInitialized

\* C13: after cleanup() the caches are empty, the elements the engine held
\* are paused, emptied and released, and the fields are at their initial
\* values; no error is raised; a second cleanup() right after it leaves that
\* state as it is.
C13_CleanupIdempotent ==
    [][Cleanup => /\ CleanedUp(State')
                  /\ elements => \A h \in Handles : audio'[h] = EmptyAudio
                  /\ currentError' = currentError
                  /\ cleanup(State)' = State'
                  /\ CleanedUp(cleanup(State)')]_vars

\* cleanup() has been called while a preparation was in flight
C13_CleanedWhilePreparing ==
    /\ CleanedUp(State) /\ firstLoad
    /\ \E p \in preps : p.phase = "fetch"

\* C14: after cleanup() the duration table is invalidated: the total virtual
\* duration of the previous book is no longer exposed.
C14_CleanupInvalidatesTimeline ==
    [][Cleanup => getTotalVirtualDuration(State)' = 0]_vars

\* C15: no element of an earlier initialization is sounding.
C15_NoOrphanSounding == ~orphanSounding

\* C16: a failed initialization leaves no further initialization attempt due.
C16_InitFailureNotRetried ==
    [][InitializeFail => ~isInitialized' /\ ~initTrigger']_vars

RequestedChunks(p) == {p.indices[k] : k \in 1 .. Len(p.indices)}

\* C17: the resolver returns a cached signed URL without a request only if
\* the time is before the recorded expiry of the entry, and then it returns
\* the URL it holds and changes nothing; otherwise it issues a request, and on
\* the response it records the expiry as the time plus the granted lifetime
\* less the safety margin and returns the new URL
C17_NeverTrustedPastExpiry ==
    [][/\ \A c \in BookChunks : ResolverCall(c) =>
             IF resolver.url[c] # 0 /\ resolver.now < resolver.exp[c]
             THEN /\ resolver'.returned = resolver.url[c]
                  /\ resolver'.pending = <<>> /\ resolver'.request = <<>>
                  /\ resolver'.url = resolver.url /\ resolver'.exp = resolver.exp
             ELSE /\ resolver'.returned = 0
                  /\ resolver'.pending # <<>>
                  /\ c \in RequestedChunks(resolver'.pending[1])
       /\ \A e \in ExpiresIn : ResolverResponse(e) =>
             LET p == resolver.pending[1]
             IN  /\ \A i \in RequestedChunks(p) :
                       /\ resolver'.exp[i] = resolver.now + e - SafetyMargin
                       /\ \A j \in BookChunks : resolver'.url[i] # resolver.url[j]
                 /\ p.chunk # None => resolver'.returned = resolver'.url[p.chunk]]_vars

\* a second call found the entry still valid, after an earlier call had found
\* its entry expired and resolved it again
C17_CachedAfterRefresh ==
    /\ resolver.calls = 2 /\ resolver.gen = 2 /\ resolver.now > 0
    /\ resolver.pending = <<>> /\ resolver.request = <<>>
    /\ resolver.returned = resolver.gen

\* C18: every batched request names valid chunk indices of the book, none
\* twice, and no more of them than the batch-size cap, the first batch of
\* initialize() included
C18_BatchWithinCap ==
    LET request == resolver.request
    IN  /\ Len(request) <= maxBatchSize
        /\ \A k \in 1 .. Len(request) : request[k] \in 0 .. (resolver.bookLen - 1)
        /\ \A k, l \in 1 .. Len(request) : request[k] = request[l] => k = l

\* the error state of the facade and the playback are as they were
PlaybackUntouched ==
    /\ currentError' = currentError
    /\ currentChunk' = currentChunk /\ activePrimary' = activePrimary
    /\ audio' = audio /\ pubIsPlaying' = pubIsPlaying

\* C19: a failure inside the prefetch path, of the resolution of signed URLs
\* or of the download of the bytes, is not reported: the error state of the
\* facade, the current chunk, the active handle and the playing state are
\* unchanged by it
C19_PrefetchFailureSilent ==
    [][/\ \A r \in urlRequests :
             ResolveFail(r) /\ r.purpose \in {"prefetch", "upcoming"}
                => PlaybackUntouched
       /\ \A c \in Chunks : PrefetchFail(c) => PlaybackUntouched]_vars

\* C20: when the resolution of the URL of the next chunk fails during a
\* preparation, nothing is reported and one further attempt for that chunk
\* is under way
C20_PreloadResolutionRetried ==
    [][\A r \in urlRequests :
          ResolveFail(r) /\ r.purpose = "preload"
             => /\ currentError' = currentError
                /\ \E q \in urlRequests' :
                      q.purpose = "preload" /\ q.chunk = r.chunk]_vars

\* C22: whenever the handle that is active emits 'error', a playback error
\* tagged with the current chunk of the engine is reported to the facade
C22_ActiveErrorSurfaced ==
    [][\A h \in Handles :
          MediaError(h) /\ isActiveAudio(State, h)
             => currentError' = [type |-> "playback", chunk |-> currentChunk]]_vars

\* C23: play() while no element with a loaded resource is at hand reports a
\* playback error and changes nothing else
C23_PlayRequiresResource ==
    [][FacadePlayNoElement \/ (FacadePlay /\ audio[audioRef].src = None)
          => /\ currentError'.type = "playback"
             /\ audio' = audio /\ currentChunk' = currentChunk
             /\ pubIsPlaying' = pubIsPlaying]_vars

Clamp(x, lo, hi) == Max(lo, Min(x, hi))

\* a chunk position inside the timeline
InsideTimeline(pos) ==
    /\ pos.chunkIndex \in Chunks
    /\ 0 <= pos.localTime /\ pos.localTime <= chunkDurations[pos.chunkIndex]

\* C24: skipForward(x) and skipBackward(x) are the seek to the current
\* virtual time plus or minus x, clamped to [0, total duration]; the chunk
\* position of the clamped time lies inside the timeline
C24_SkipIsClampedSeek ==
    [][\A x \in SkipSeconds :
          LET current == getCurrentVirtualTime(State)
              total == getTotalVirtualDuration(State)
              s0 == [UserOp(State) EXCEPT !.published = None]
              forward == Clamp(current + x, 0, total)
              backward == Clamp(current - x, 0, total)
          IN  /\ SkipForward(x) =>
                    /\ State' = seekToVirtualTimeAs(s0, forward, "skip")
                    /\ InsideTimeline(getChunkPosition(forward))
              /\ SkipBackward(x) =>
                    /\ State' = seekToVirtualTimeAs(s0, backward, "skip")
                    /\ InsideTimeline(getChunkPosition(backward))]_vars

\* a skip past the end of the book is loading the last chunk, to be played
\* from its full duration
C24_SkippedPastEnd ==
    \E l \in loads : /\ l.kind = "skip" /\ l.chunk = NumChunks - 1
                      /\ l.local = chunkDurations[NumChunks - 1]

\* C25: after setVolume(v) the volume of the element and the published volume
\* are both v clamped to [0, 1]; after setPlaybackRate(r) the rate of the
\* element and the published rate are both r clamped to [0.25, 4]
C25_SettersClamp ==
    [][/\ \A v \in Volumes : SetVolume(v) =>
             /\ settings'.volume[audioRef] = Clamp(v, MinVolume, MaxVolume)
             /\ settings'.pubVolume = Clamp(v, MinVolume, MaxVolume)
       /\ \A r \in Rates : SetPlaybackRate(r) =>
             /\ settings'.playbackRate[audioRef] = Clamp(r, MinRate, MaxRate)
             /\ settings'.pubPlaybackRate = Clamp(r, MinRate, MaxRate)]_vars

\* the active element has the volume and the rate the user chose last
ActiveHasChosen(s) ==
    LET h == getActiveAudio(s)
    IN  /\ s.settings.volume[h] = clampVolume(s.settings.pubVolume)
        /\ s.settings.playbackRate[h] = clampRate(s.settings.pubPlaybackRate)

\* C26: a swap of the handles leaves the volume and the rate the user chose
\* on the element that is active
C26_SettingsSurviveSwap ==
    [][activePrimary' # activePrimary /\ ActiveHasChosen(State)
          => ActiveHasChosen(State')]_vars

\* C21: when the resolution of the URL of the target chunk fails during
\* seekToVirtualTime, the call completes with a failure, an error is
\* reported, and the current chunk and the position are as before the seek
C21_SeekFailureReachesCaller ==
    [][GaplessSeekFail
          => /\ gapless'.signal = "failed"
             /\ gapless'.error.type # "none"
             /\ gapless'.currentChunk = gapless.currentChunk
             /\ gapless'.position = gapless.position]_vars

\* a chunk list with at least one chunk and positive durations only
PositiveDurations(chunks) ==
    /\ chunks # <<>>
    /\ \A k \in 1 .. Len(chunks) : chunks[k].duration_s > 0

RECURSIVE SumDurations(_)
SumDurations(chunks) ==
    IF chunks = <<>> THEN 0
    ELSE chunks[1].duration_s + SumDurations(Tail(chunks))

\* C27: after initialize on a non-empty chunk list with positive durations,
\* the first offset is 0, every further offset is the offset before it plus
\* the duration before it and greater than it, every chunk ends its duration
\* after its start, and the total duration is the end of the last chunk and
\* the sum of all durations
C27_TimelineOffsets ==
    timeline.initialized /\ PositiveDurations(timeline.input) =>
        LET n == Len(timeline.input)
            offset == timeline.chunkOffsets
            duration == timeline.chunkDurations
            chunks == timeline.chunks
        IN  /\ Len(offset) = n /\ Len(duration) = n /\ Len(chunks) = n
            /\ offset[1] = 0
            /\ \A k \in 1 .. (n - 1) :
                  offset[k + 1] = offset[k] + duration[k] /\ offset[k + 1] > offset[k]
            /\ \A k \in 1 .. n :
                  /\ chunks[k].startTime = offset[k]
                  /\ chunks[k].duration = duration[k]
                  /\ chunks[k].endTime - chunks[k].startTime = duration[k]
            /\ timeline.totalDuration = chunks[n].endTime
            /\ timeline.totalDuration = SumDurations(timeline.input)

\* a timeline of three chunks of different positive durations that came out
\* of order
C27_InitializedOutOfOrder ==
    /\ timeline.initialized /\ PositiveDurations(timeline.input)
    /\ Len(timeline.input) = 3
    /\ timeline.input[1].seq > timeline.input[2].seq
    /\ timeline.chunkDurations[1] # timeline.chunkDurations[2]
    /\ timeline.chunkOffsets[3] = timeline.chunkDurations[1] + timeline.chunkDurations[2]

\* the sequences of a chunk list are exactly 0, 1, ..., N-1 and its
\* durations are positive
WellFormed(chunks) ==
    /\ PositiveDurations(chunks)
    /\ {chunks[k].seq : k \in 1 .. Len(chunks)} = 0 .. (Len(chunks) - 1)

\* C28: initialize builds a table only for a chunk list that is not empty,
\* whose sequences are exactly 0, 1, ..., N-1 and whose durations are positive
C28_MalformedRejected ==
    timeline.initialized => WellFormed(timeline.input)

\* C29: a time below 0 resolves to chunk 0 at 0, a time above the total
\* duration to the last chunk at its duration, and every result names a chunk
\* of the book and a local time within the duration of that chunk
C29_ClampedPosition ==
    timeline.asked =>
        LET t == timeline.query
            n == Len(timeline.chunkDurations)
            duration == timeline.chunkDurations
            result == timeline.result
        IN  /\ t < 0 => result = [chunkIndex |-> 0, localTime |-> 0]
            /\ t > timeline.totalDuration =>
                  result = [chunkIndex |-> n - 1, localTime |-> duration[n]]
            /\ result.chunkIndex \in 0 .. (n - 1)
            /\ 0 <= result.localTime
            /\ result.localTime <= duration[result.chunkIndex + 1]

\* C30: a time in [0, total duration) resolves to the one chunk whose
\* half-open interval holds it, at the time less the offset of the chunk; a
\* time equal to the offset of a chunk after the first resolves to that chunk
\* at 0; the last chunk at its full duration is the result for no time
\* before the total duration
C30_HalfOpenBoundary ==
    timeline.asked =>
        LET t == timeline.query
            n == Len(timeline.chunkDurations)
            offset == timeline.chunkOffsets
            duration == timeline.chunkDurations
            result == timeline.result
            holders == {i \in 1 .. n : offset[i] <= t /\ t < offset[i] + duration[i]}
        IN  /\ 0 <= t /\ t < timeline.totalDuration =>
                  /\ Cardinality(holders) = 1
                  /\ result.chunkIndex + 1 \in holders
                  /\ result.localTime = t - offset[result.chunkIndex + 1]
                  /\ result # [chunkIndex |-> n - 1, localTime |-> duration[n]]
            /\ \A i \in 2 .. n :
                  t = offset[i] => result = [chunkIndex |-> i - 1, localTime |-> 0]

\* C31: the position of a time strictly inside the interval of a chunk, or
\* anywhere from 0 to the total duration, maps back to that time
C31_RoundTrip ==
    timeline.call.method = "test" =>
        LET t == timeline.query
            n == Len(timeline.chunkDurations)
            offset == timeline.chunkOffsets
            duration == timeline.chunkDurations
            inside == \E i \in 1 .. n : offset[i] < t /\ t < offset[i] + duration[i]
        IN  inside \/ (0 <= t /\ t <= timeline.totalDuration) =>
                timeline.call.value = t


\* C32: getVirtualTime of a chunk of the book is the offset of the chunk plus
\* the local time clamped to [0, duration of the chunk]; it lies between the
\* start and the end of the chunk and between 0 and the total duration, and
\* no smaller local time gives a greater result
C32_VirtualTimeClamps ==
    /\ timeline.call.method = "getVirtualTime"
    /\ timeline.call.chunkIndex \in 0 .. (Len(timeline.chunkDurations) - 1)
    => LET i == timeline.call.chunkIndex + 1
           localTime == timeline.call.localTime
           offset == timeline.chunkOffsets
           duration == timeline.chunkDurations
           value == timeline.call.value
       IN  /\ value = offset[i] + Clamp(localTime, 0, duration[i])
           /\ offset[i] <= value /\ value <= offset[i] + duration[i]
           /\ 0 <= value /\ value <= timeline.totalDuration
           /\ \A l \in LocalTimes :
                 l <= localTime =>
                     timelineGetVirtualTime(timeline, i - 1, l) <= value

\* C33: isNearChunkEnd(t, threshold) is true exactly when the duration of
\* the chunk of getChunkPosition(t) less the local time of that position is
\* at most the threshold; a time equal to the offset of a chunk after the
\* first is judged as local time 0 of that chunk
C33_NearEndOfContainingChunk ==
    timeline.call.method = "isNearChunkEnd" =>
        LET t == timeline.query
            threshold == timeline.call.threshold
            n == Len(timeline.chunkDurations)
            offset == timeline.chunkOffsets
            duration == timeline.chunkDurations
            pos == timelineGetChunkPosition(timeline, t)
        IN  /\ timeline.call.near <=>
                  duration[pos.chunkIndex + 1] - pos.localTime <= threshold
            /\ \A i \in 2 .. n :
                  t = offset[i] =>
                      (timeline.call.near <=> duration[i] - 0 <= threshold)

\* C34: while the engine is initialized, currentChunk is the index of a chunk
\* of the book: no load, seek, tick, 'ended', preparation or swap takes it
\* below 0 or past the last chunk
C34_CurrentChunkInRange ==
    isInitialized => currentChunk \in 0 .. (NumChunks - 1)

\* the engine went into the last chunk by a swap and played it to its end
C34_LastChunkPlayedOut ==
    /\ isInitialized /\ currentChunk = NumChunks - 1
    /\ audio[Active].src = NumChunks - 1 /\ audio[Inactive].src = NumChunks - 2
    /\ audio[Active].time >= chunkDurations[NumChunks - 1]
    /\ ~audio[Active].playing

\* C35: while the engine is not initialized (before initialize, and from a
\* cleanup to the next initialize) its caches are empty and currentChunk is 0:
\* a download or a request that completes after cleanup stores nothing and
\* changes no chunk
C35_NoLateCompletion ==
    ~isInitialized =>
        /\ chunkCache = {} /\ signedUrls = {}
        /\ currentChunk = 0

\* C36: isTransitioning is set only within a preparation of the boundary from
\* the chunk that is playing to the next one: the current chunk is not the
\* last, the active element holds it and is within the threshold of its end,
\* and the next chunk is being fetched or is in the inactive element
C36_FlagHasPendingBoundary ==
    isInitialized /\ isTransitioning /\ Idle =>
        /\ currentChunk < NumChunks - 1
        /\ audio[Active].src = currentChunk
        /\ chunkDurations[currentChunk] - audio[Active].time <= transitionThreshold
        /\ \/ \E p \in preps : p.chunk = currentChunk + 1
           \/ audio[Inactive].src = currentChunk + 1

\* the chunks with a performPreload in flight: a suspended preparation waits
\* for the signed URL or for the download of each
PreloadsInFlight == {p.chunk : p \in {q \in preps : q.phase \in {"resolve", "fetch"}}}

\* C37: preloadQueue holds exactly the chunks whose preload is in flight, and
\* none of them twice: a chunk leaves it when its preload succeeds or fails,
\* and a chunk whose preload is in flight is in it
C37_QueueIsInFlight == preloadQueue = PreloadsInFlight

\* C38: every blob URL that has been created is the cache entry of its chunk
\* or has been revoked: no download that completes replaces the entry of a
\* chunk that another download had stored
C38_NoOrphanedBlobUrl == ~blobUrls.orphaned

\* element h fires 'timeupdate' or 'ended' while it is not the active one
InactiveEvent(h) == (Tick(h) \/ Ended(h)) /\ h # Active

\* C39: a 'timeupdate' or 'ended' of the element that is not active when the
\* event is delivered publishes no virtual time, starts no preparation, no
\* download and no load, makes no swap, and leaves currentChunk,
\* activePrimary and isTransitioning as they are
C39_InactiveEventsIgnored ==
    [][\A h \in Handles :
          InactiveEvent(h) =>
              /\ published' = published
              /\ preps' = preps /\ preloadQueue' = preloadQueue
              /\ loads' = loads /\ urlRequests' = urlRequests
              /\ currentChunk' = currentChunk /\ currentChunkRef' = currentChunkRef
              /\ activePrimary' = activePrimary
              /\ isTransitioning' = isTransitioning
              /\ audio'[Active] = audio[Active]]_vars

\* the element that is not active has played on past a 'timeupdate' while
\* the active element holds the current chunk
C39_InactiveElementTicked ==
    /\ isInitialized /\ Idle
    /\ Sounding(audio, Inactive) /\ audio[Inactive].time >= 1
    /\ audio[Active].src = currentChunk

\* C40: the hook holds no streamer, and publishes no state, of an
\* initializeAudio call that initialize(newBookId) or cleanup() of the hook
\* has superseded; the state it publishes is for the book it is set to
C40_SupersededInitLeavesNothing ==
    /\ \A k \in 1 .. Len(facade.audioStreamerRef) :
          ~facade.audioStreamerRef[k].superseded
    /\ \A k \in 1 .. Len(facade.audioState) :
          /\ ~facade.audioState[k].superseded
          /\ <<facade.audioState[k].bookId>> = facade.bookId

====
